---- MODULE Spec2Model ----
(***************************************************************************)
(* Ownership and lifecycle model of the OpenVINO Rust bridge shim.         *)
(*                                                                         *)
(*   inference-engine/ie_bridges/rust/src/binding/cpp/bridge.h             *)
(*       core_new, core_new_default, read_network(Core&),                  *)
(*       load_network, create_infer_request                                *)
(*   inference-engine/ie_bridges/rust/src/bridge.h                         *)
(*       core_new, core_new_default, read_network(unique_ptr<Core>)        *)
(*                                                                         *)
(* Every wrapper returns std::make_unique<T>(<library call>): a new heap   *)
(* object owned by one std::unique_ptr handed to the caller.  The caller   *)
(* is the Rust side of the cxx bridge: a handle passed by value is moved   *)
(* and cannot be named again, a handle passed by reference is borrowed.    *)
(* The wrapped InferenceEngine library is not part of these headers; its   *)
(* four calls are modelled by the Lib_ operators.                          *)
(***************************************************************************)
EXTENDS Integers, FiniteSets, Sequences, TLC

\* Largest number of objects the shim allocates in one behaviour.
MaxObjects == 5

NoHandle == 0

\* Inputs of the calls (rust::Str arguments).
ConfigPaths == {"", "plugins.xml", "missing.xml"}
ModelPaths  == {"model.xml", "missing.xml"}
BinPaths    == {"model.bin"}
Devices     == {"CPU", "BOGUS"}

\* What the library accepts.
ValidConfigs == {"", "plugins.xml"}
ValidModels  == {"model.xml"}
KnownDevices == {"CPU"}

\* The two headers of the shim.
BindingHeader == "binding/cpp/bridge.h"
SrcHeader     == "bridge.h"

VARIABLES
    heap,     \* heap[h]: the object make_unique allocated as h, for h in 1..nextId-1
    held,     \* held[h]: number of unique_ptr handles the caller holds on h
    nextId,   \* identity of the next object make_unique allocates
    last      \* the most recent call: operation, arguments and outcome

vars == <<heap, held, nextId, last>>

Handles == DOMAIN heap

----------------------------------------------------------------------------
(* The wrapped library.  An outcome is a value or a thrown exception.      *)

Ok(v)    == [ok |-> TRUE,  val |-> v,      err |-> "none"]
Throw(e) == [ok |-> FALSE, val |-> "none", err |-> e]

\* InferenceEngine::Core::Core(const std::string& xmlConfigFile = {})
Lib_Core(xmlConfigFile, fault) ==
    IF fault THEN Throw("GENERAL_ERROR")
    ELSE IF xmlConfigFile \notin ValidConfigs THEN Throw("CONFIG_NOT_FOUND")
    ELSE Ok([cfg |-> IF xmlConfigFile = "" THEN "default" ELSE xmlConfigFile])

\* InferenceEngine::Core::Core() is the same constructor, argument defaulted.
Lib_CoreDefault(fault) == Lib_Core("", fault)

\* InferenceEngine::Core::ReadNetwork(modelPath, binPath)
Lib_ReadNetwork(core, modelPath, binPath, fault) ==
    IF fault THEN Throw("GENERAL_ERROR")
    ELSE IF modelPath \notin ValidModels THEN Throw("NETWORK_NOT_READ")
    ELSE Ok([model |-> modelPath, weights |-> binPath])

\* InferenceEngine::Core::LoadNetwork(network, deviceName)
Lib_LoadNetwork(core, network, device, fault) ==
    IF fault THEN Throw("GENERAL_ERROR")
    ELSE IF device \notin KnownDevices THEN Throw("DEVICE_NOT_FOUND")
    ELSE Ok([net |-> network, device |-> device])

\* InferenceEngine::ExecutableNetwork::CreateInferRequest()
Lib_CreateInferRequest(exec, fault) ==
    IF fault THEN Throw("GENERAL_ERROR")
    ELSE Ok([of |-> exec])

----------------------------------------------------------------------------
(* Heap objects and the caller's handles.                                  *)

\* An object: what it wraps, whether it is still allocated, and the raw
\* references it keeps into other handle-owned objects (none: every wrapper
\* copies or moves the library value into the new allocation).
Object(kind, st) == [kind |-> kind, st |-> st, live |-> TRUE, refs |-> {}]

IsHeld(h, kind) ==
    /\ h \in Handles
    /\ held[h] > 0
    /\ heap[h].kind = kind

\* An object is valid when it is allocated and nothing it refers to is gone.
ValidIn(hp, h) ==
    /\ h \in DOMAIN hp
    /\ hp[h].live
    /\ \A r \in hp[h].refs : r \in DOMAIN hp /\ hp[r].live

Valid(h) == ValidIn(heap, h)

\* std::make_unique<T>(value): a new object, owned by the returned unique_ptr.
MakeUnique(hp, hd, obj) ==
    [heap |-> [h \in DOMAIN hp \cup {nextId} |-> IF h = nextId THEN obj ELSE hp[h]],
     held |-> [h \in DOMAIN hd \cup {nextId} |-> IF h = nextId THEN 1 ELSE hd[h]]]

\* A unique_ptr parameter taken by value: moved out of the caller, and the
\* object deleted when the parameter goes out of scope (return or unwinding).
MoveIn(hd, h) == [hd EXCEPT ![h] = @ - 1]

\* A parameter that is released instead of deleted.
Delete_leaking(hp, h) == hp

Delete(hp, h) == [hp EXCEPT ![h].live = FALSE]

\* The record of a call: what was asked, what the library threw, what
\* reached the caller.
Call(op, header, core, network, exec, in, fault, r, surfaced, result) ==
    [op |-> op, header |-> header, core |-> core, network |-> network,
     exec |-> exec, in |-> in, fault |-> fault,
     status |-> IF r.ok THEN "ok" ELSE "error",
     thrown |-> r.err, err |-> surfaced, result |-> result]

NoCall ==
    [op |-> "none", header |-> "none", core |-> NoHandle, network |-> NoHandle,
     exec |-> NoHandle, in |-> <<>>, fault |-> FALSE, status |-> "none",
     thrown |-> "none", err |-> "none", result |-> NoHandle]

\* The body every wrapper shares:
\*     return std::make_unique<T>(<library call>);
\* r is the outcome of the library call, hp and hd the heap and the caller's
\* handles once the by-value parameters have been moved in and destroyed.
\* The library call is evaluated before make_unique allocates, and there is
\* no try/catch: an exception leaves the function as thrown.
Wrap(op, header, core, network, exec, in, fault, r, kind, hp, hd) ==
    /\ nextId <= MaxObjects
    /\ IF r.ok
       THEN LET a == MakeUnique(hp, hd, Object(kind, r.val)) IN
            /\ heap' = a.heap
            /\ held' = a.held
            /\ nextId' = nextId + 1
            /\ last' = Call(op, header, core, network, exec, in, fault, r,
                            r.err, nextId)
       ELSE /\ heap' = hp
            /\ held' = hd
            /\ UNCHANGED nextId
            /\ last' = Call(op, header, core, network, exec, in, fault, r,
                            r.err, NoHandle)

----------------------------------------------------------------------------
\* The shape of the state: the objects allocated so far are 1..nextId-1, each
\* of one of the four wrapped types, and the caller's handle count is kept
\* for each of them.
Kinds == {"Engine", "Network", "ExecutableNetwork", "InferRequest"}

TypeOK ==
    /\ nextId \in 1..(MaxObjects + 1)
    /\ DOMAIN heap = 1..(nextId - 1)
    /\ DOMAIN held = DOMAIN heap
    /\ \A h \in Handles :
          /\ heap[h].kind \in Kinds
          /\ heap[h].live \in BOOLEAN
          /\ heap[h].refs \subseteq Handles
          /\ held[h] \in 0..1
    /\ last.status \in {"none", "ok", "error"}
    /\ last.result \in {NoHandle} \cup Handles

Init ==
    /\ heap = <<>>
    /\ held = <<>>
    /\ nextId = 1
    /\ last = NoCall

\* A constructor that hands out one shared Core instead of a new one.
core_new_singleton(xmlConfigFile, fault) ==
    LET engines == {h \in Handles : heap[h].kind = "Engine" /\ heap[h].live}
        r       == Lib_Core(xmlConfigFile, fault)
    IN
    IF engines # {} /\ r.ok
    THEN LET h == CHOOSE e \in engines : TRUE IN
         /\ held' = [held EXCEPT ![h] = @ + 1]
         /\ UNCHANGED <<heap, nextId>>
         /\ last' = Call("core_new", BindingHeader, NoHandle, NoHandle, NoHandle,
                         <<xmlConfigFile>>, fault, r, r.err, h)
    ELSE Wrap("core_new", BindingHeader, NoHandle, NoHandle, NoHandle,
              <<xmlConfigFile>>, fault, r, "Engine", heap, held)

\* binding/cpp/bridge.h: core_new(rust::Str xmlConfigFile = {})
core_new(xmlConfigFile, fault) ==
    Wrap("core_new", BindingHeader, NoHandle, NoHandle, NoHandle,
         <<xmlConfigFile>>, fault, Lib_Core(xmlConfigFile, fault),
         "Engine", heap, held)

\* A default constructor that reads a fixed configuration file.
core_new_default_configured(fault) ==
    Wrap("core_new_default", BindingHeader, NoHandle, NoHandle, NoHandle,
         <<>>, fault, Lib_Core("plugins.xml", fault), "Engine", heap, held)

\* binding/cpp/bridge.h: core_new_default()
core_new_default(fault) ==
    Wrap("core_new_default", BindingHeader, NoHandle, NoHandle, NoHandle,
         <<>>, fault, Lib_CoreDefault(fault), "Engine", heap, held)

\* bridge.h: core_new(rust::Str xmlConfigFile = {})
core_new_src(xmlConfigFile, fault) ==
    Wrap("core_new", SrcHeader, NoHandle, NoHandle, NoHandle,
         <<xmlConfigFile>>, fault, Lib_Core(xmlConfigFile, fault),
         "Engine", heap, held)

\* bridge.h: core_new_default()
core_new_default_src(fault) ==
    Wrap("core_new_default", SrcHeader, NoHandle, NoHandle, NoHandle,
         <<>>, fault, Lib_CoreDefault(fault), "Engine", heap, held)

\* A read_network that swallows the library's exception and returns an
\* empty network.
read_network_swallow(core, modelPath, binPath, fault) ==
    /\ IsHeld(core, "Engine")
    /\ LET r == Lib_ReadNetwork(heap[core].st, modelPath, binPath, fault) IN
       Wrap("read_network", BindingHeader, core, NoHandle, NoHandle,
            <<modelPath, binPath>>, fault,
            IF r.ok THEN r ELSE Ok([model |-> "", weights |-> ""]),
            "Network", heap, held)

\* binding/cpp/bridge.h: read_network(Core &core, modelPath, binPath)
\* The engine is borrowed.
read_network(core, modelPath, binPath, fault) ==
    /\ IsHeld(core, "Engine")
    /\ Wrap("read_network", BindingHeader, core, NoHandle, NoHandle,
            <<modelPath, binPath>>, fault,
            Lib_ReadNetwork(heap[core].st, modelPath, binPath, fault),
            "Network", heap, held)

\* bridge.h: read_network(std::unique_ptr<Core> core, modelPath, binPath)
\* The engine is moved in and destroyed when the call ends.
read_network_src(core, modelPath, binPath, fault) ==
    /\ IsHeld(core, "Engine")
    /\ Wrap("read_network", SrcHeader, core, NoHandle, NoHandle,
            <<modelPath, binPath>>, fault,
            Lib_ReadNetwork(heap[core].st, modelPath, binPath, fault),
            "Network", Delete(heap, core), MoveIn(held, core))

\* A load_network that takes the network by reference.
load_network_borrowing(core, network, device, fault) ==
    /\ IsHeld(core, "Engine")
    /\ IsHeld(network, "Network")
    /\ Wrap("load_network", BindingHeader, core, network, NoHandle,
            <<device>>, fault,
            Lib_LoadNetwork(heap[core].st, heap[network].st, device, fault),
            "ExecutableNetwork", heap, held)

\* A load_network that gives the network back when the library throws.
load_network_returning(core, network, device, fault) ==
    /\ IsHeld(core, "Engine")
    /\ IsHeld(network, "Network")
    /\ LET r == Lib_LoadNetwork(heap[core].st, heap[network].st, device, fault) IN
       Wrap("load_network", BindingHeader, core, network, NoHandle,
            <<device>>, fault, r, "ExecutableNetwork",
            IF r.ok THEN Delete(heap, network) ELSE heap,
            IF r.ok THEN MoveIn(held, network) ELSE held)

\* binding/cpp/bridge.h:
\*   load_network(Core &core, std::unique_ptr<CNNNetwork> network, device)
\* The engine is borrowed; the network is moved in and destroyed when the
\* call ends, by return or by exception.
load_network(core, network, device, fault) ==
    /\ IsHeld(core, "Engine")
    /\ IsHeld(network, "Network")
    /\ Wrap("load_network", BindingHeader, core, network, NoHandle,
            <<device>>, fault,
            Lib_LoadNetwork(heap[core].st, heap[network].st, device, fault),
            "ExecutableNetwork", Delete(heap, network), MoveIn(held, network))

\* A create_infer_request that takes the executable network by value.
create_infer_request_consuming(network, fault) ==
    /\ IsHeld(network, "ExecutableNetwork")
    /\ Wrap("create_infer_request", BindingHeader, NoHandle, NoHandle, network,
            <<>>, fault, Lib_CreateInferRequest(heap[network].st, fault),
            "InferRequest", Delete(heap, network), MoveIn(held, network))

\* A create_infer_request whose result keeps a reference to the wrapper
\* object of the executable network.
create_infer_request_referring(network, fault) ==
    /\ IsHeld(network, "ExecutableNetwork")
    /\ nextId <= MaxObjects
    /\ LET r == Lib_CreateInferRequest(heap[network].st, fault) IN
       IF r.ok
       THEN LET a == MakeUnique(heap, held,
                        [Object("InferRequest", r.val) EXCEPT !.refs = {network}])
            IN
            /\ heap' = a.heap
            /\ held' = a.held
            /\ nextId' = nextId + 1
            /\ last' = Call("create_infer_request", BindingHeader, NoHandle,
                            NoHandle, network, <<>>, fault, r, r.err, nextId)
       ELSE /\ UNCHANGED <<heap, held, nextId>>
            /\ last' = Call("create_infer_request", BindingHeader, NoHandle,
                            NoHandle, network, <<>>, fault, r, r.err, NoHandle)

\* binding/cpp/bridge.h: create_infer_request(ExecutableNetwork &network)
\* The executable network is borrowed.
create_infer_request(network, fault) ==
    /\ IsHeld(network, "ExecutableNetwork")
    /\ Wrap("create_infer_request", BindingHeader, NoHandle, NoHandle, network,
            <<>>, fault, Lib_CreateInferRequest(heap[network].st, fault),
            "InferRequest", heap, held)

\* The caller lets a returned std::unique_ptr go out of scope.
Drop(h) ==
    /\ h \in Handles
    /\ held[h] > 0
    /\ held' = MoveIn(held, h)
    /\ heap' = Delete(heap, h)
    /\ UNCHANGED nextId
    /\ last' = [NoCall EXCEPT !.op = "drop", !.result = h]

Next ==
    \/ \E x \in ConfigPaths, f \in BOOLEAN : core_new(x, f)
    \/ \E f \in BOOLEAN : core_new_default(f)
    \/ \E x \in ConfigPaths, f \in BOOLEAN : core_new_src(x, f)
    \/ \E f \in BOOLEAN : core_new_default_src(f)
    \/ \E c \in Handles, m \in ModelPaths, b \in BinPaths, f \in BOOLEAN :
          read_network(c, m, b, f)
    \/ \E c \in Handles, m \in ModelPaths, b \in BinPaths, f \in BOOLEAN :
          read_network_src(c, m, b, f)
    \/ \E c \in Handles, n \in Handles, d \in Devices, f \in BOOLEAN :
          load_network(c, n, d, f)
    \/ \E n \in Handles, f \in BOOLEAN : create_infer_request(n, f)
    \/ \E h \in Handles : Drop(h)

Spec == Init /\ [][Next]_vars


----------------------------------------------------------------------------
(* Properties.                                                             *)

Returned  == last.status = "ok"
Failed    == last.status = "error"
Stage(k)  == CASE k = "Engine" -> 1
               [] k = "Network" -> 2
               [] k = "ExecutableNetwork" -> 3
               [] k = "InferRequest" -> 4
OfKind(k) == {h \in Handles : heap[h].kind = k}

\* C1: load_network takes the Network by ownership transfer.  A successful
\* load_network leaves the caller without a handle on the network and the
\* network object destroyed; a network the caller no longer holds is never
\* held again, never revived, and never the argument of a later load_network.
C1_NetworkMovedIntoLoad ==
    [][ /\ (last'.op = "load_network" /\ last'.status = "ok")
            => /\ held[last'.network] = 1
               /\ held'[last'.network] = 0
               /\ ~heap'[last'.network].live
        /\ \A n \in OfKind("Network") :
              held[n] = 0 => /\ held'[n] = 0
                             /\ ~heap'[n].live
                             /\ last'.network # n
      ]_vars

\* C1 witness: a network was consumed by a successful load_network and the
\* caller went on to use the executable network it got.
C1_Witness ==
    /\ last.op = "create_infer_request"
    /\ Returned
    /\ \E n \in OfKind("Network") : held[n] = 0 /\ ~heap[n].live

\* C2: create_infer_request borrows the ExecutableNetwork.  Whatever the
\* outcome of the call, the executable network is still held by the caller,
\* still allocated and unchanged, and every InferRequest that existed before
\* the call is unchanged and as held as before.
C2_CreateBorrowsExecutable ==
    [][ last'.op = "create_infer_request"
          => /\ held[last'.exec] = 1
             /\ held'[last'.exec] = 1
             /\ heap'[last'.exec] = heap[last'.exec]
             /\ ValidIn(heap', last'.exec)
             /\ \A q \in OfKind("InferRequest") :
                   /\ heap'[q] = heap[q]
                   /\ held'[q] = held[q]
                   /\ Valid(q) => ValidIn(heap', q)
      ]_vars

\* C2 witness: a second request was created from an executable network that
\* already had one, and both are held.
C2_Witness ==
    /\ last.op = "create_infer_request"
    /\ Returned
    /\ \E q \in OfKind("InferRequest") :
          /\ q # last.result
          /\ held[q] = 1
          /\ heap[q].st.of = heap[last.exec].st
    /\ held[last.exec] = 1

\* What a call did with the Engine it was given, read off the state it left.
TakesEngine(c)    == c.op \in {"read_network", "load_network"}
Discipline(c, hd) == IF hd[c.core] > 0 THEN "borrowed" ELSE "consumed"

\* C3: the Engine is treated under one ownership discipline by every
\* declaration that takes it: any two consecutive calls that take an Engine
\* either both leave it with the caller or both consume it.
C3_OneEngineDiscipline ==
    [][ (TakesEngine(last) /\ TakesEngine(last'))
          => Discipline(last, held) = Discipline(last', held') ]_vars

\* C4: core_new and core_new_default, when the library constructs the Core
\* (valid path, no library failure), return a newly allocated Engine: a
\* handle that no earlier call returned, owned once, with every earlier
\* object left as it was.
C4_EngineIsFresh ==
    [][ last'.op \in {"core_new", "core_new_default"}
          => /\ (~last'.fault /\ \A i \in DOMAIN last'.in : last'.in[i] \in ValidConfigs)
                  => last'.status = "ok"
             /\ last'.status = "ok"
                  => /\ last'.result \notin Handles
                     /\ last'.result \in DOMAIN heap'
                     /\ heap'[last'.result].kind = "Engine"
                     /\ heap'[last'.result].live
                     /\ held'[last'.result] = 1
                     /\ \A h \in Handles : heap'[h] = heap[h] /\ held'[h] = held[h]
      ]_vars

\* C4 witness: a constructor returned an Engine while an earlier Engine was
\* still held.
C4_Witness ==
    /\ last.op \in {"core_new", "core_new_default"}
    /\ Returned
    /\ \E e \in OfKind("Engine") : e # last.result /\ held[e] = 1

\* C5: for valid inputs the chain read_network, load_network,
\* create_infer_request can be carried to its end with the handles left
\* usable: a read_network on valid paths succeeds and leaves the caller with
\* what load_network takes (an Engine and the returned Network), a
\* load_network on a known device succeeds and leaves the returned
\* ExecutableNetwork for create_infer_request, which succeeds and returns a
\* request handle that is no handle already held.
C5_ChainCompletes ==
    /\ (last.op = "read_network" /\ ~last.fault /\ last.in[1] \in ValidModels)
          => Returned
    /\ (last.op = "read_network" /\ Returned /\ nextId <= MaxObjects)
          => ENABLED (\E c \in Handles : load_network(c, last.result, "CPU", FALSE))
    /\ (last.op = "load_network" /\ ~last.fault /\ last.in[1] \in KnownDevices)
          => Returned
    /\ (last.op = "load_network" /\ Returned /\ nextId <= MaxObjects)
          => ENABLED create_infer_request(last.result, FALSE)
    /\ (last.op = "create_infer_request" /\ ~last.fault) => Returned
    /\ (last.op = "create_infer_request" /\ Returned)
          => /\ heap[last.result].kind = "InferRequest"
             /\ held[last.result] = 1
             /\ Valid(last.result)

\* C6: when the library call fails, the wrapper surfaces the library's error
\* as thrown and creates no handle: nothing is allocated and no result is
\* returned; a model path the library cannot read and a device it does not
\* know are such failures.
C6_FailurePropagates ==
    [][ /\ last'.status = "error"
            => /\ last'.err = last'.thrown
               /\ last'.err # "none"
               /\ last'.result = NoHandle
               /\ nextId' = nextId
               /\ DOMAIN heap' = DOMAIN heap
               /\ \A h \in Handles : held'[h] <= held[h]
        /\ (last'.op = "read_network" /\ last'.in[1] \notin ValidModels)
            => last'.status = "error"
        /\ (last'.op = "load_network" /\ last'.in[1] \notin KnownDevices)
            => last'.status = "error"
        /\ (last'.op = "core_new" /\ last'.in[1] \notin ValidConfigs)
            => last'.status = "error"
        /\ last'.fault => last'.status = "error"
      ]_vars

\* C6 witness: load_network failed on an unknown device after read_network
\* had succeeded, and no ExecutableNetwork exists.
C6_Witness ==
    /\ last.op = "load_network"
    /\ Failed
    /\ last.err = "DEVICE_NOT_FOUND"
    /\ OfKind("ExecutableNetwork") = {}

\* The call constructs an Engine from the default configuration.
DefaultConstruction(c) ==
    \/ c.op = "core_new_default"
    \/ c.op = "core_new" /\ c.in = <<"">>

DefaultEngine == Object("Engine", [cfg |-> "default"])

C8_RequestOutlivesExecutable ==
    /\ [](\A q \in OfKind("InferRequest") : held[q] > 0 => Valid(q))
    /\ [][ (last'.op = "drop" /\ heap[last'.result].kind = "ExecutableNetwork")
             => \A q \in OfKind("InferRequest") :
                   /\ heap'[q] = heap[q]
                   /\ held'[q] = held[q]
                   /\ Valid(q) => ValidIn(heap', q)
         ]_vars

\* C8 witness: the only ExecutableNetwork has been destroyed and a request
\* created from it is still held and valid.
C8_Witness ==
    /\ Cardinality(OfKind("ExecutableNetwork")) = 1
    /\ \A x \in OfKind("ExecutableNetwork") : ~heap[x].live /\ held[x] = 0
    /\ \E q \in OfKind("InferRequest") : held[q] = 1 /\ Valid(q)

\* C9: every allocated object has exactly one owner, a released object has
\* none, and a call's result is of a later stage than each handle it took.
C9_SingleOwnerForwardFlow ==
    /\ \A h \in Handles :
          /\ held[h] \in {0, 1}
          /\ heap[h].live <=> held[h] = 1
    /\ (last.result # NoHandle /\ last.op # "drop")
          => \A a \in {last.core, last.network, last.exec} \ {NoHandle} :
                Stage(heap[a].kind) < Stage(heap[last.result].kind)

\* C9 witness: after a failed load_network, with one Engine consumed by the
\* read_network of bridge.h and another still held, some objects are released
\* and the others are owned once.
C9_Witness ==
    /\ last.op = "load_network"
    /\ Failed
    /\ \E h \in OfKind("Engine") : ~heap[h].live /\ held[h] = 0
    /\ \E h \in OfKind("Engine") : heap[h].live /\ held[h] = 1
    /\ \E h \in OfKind("Network") : ~heap[h].live /\ held[h] = 0

\* C10: load_network releases the Network on every exit path and only
\* borrows the Engine: after the call, successful or not, the caller holds no
\* handle on the network, the network object is destroyed and cannot be
\* given to load_network again, and the Engine is held, allocated and
\* unchanged.
C10_LoadReleasesNetworkAlways ==
    /\ [](last.op = "load_network"
            => ~ENABLED (\E c \in Handles, d \in Devices, f \in BOOLEAN :
                            load_network(c, last.network, d, f)))
    /\ [][ last'.op = "load_network"
             => /\ held[last'.network] = 1
                /\ held'[last'.network] = 0
                /\ ~heap'[last'.network].live
                /\ held[last'.core] = 1
                /\ held'[last'.core] = 1
                /\ heap'[last'.core] = heap[last'.core]
                /\ ValidIn(heap', last'.core)
         ]_vars

\* C10 witness: load_network failed, the network is gone and the Engine is
\* still held.
C10_Witness ==
    /\ last.op = "load_network"
    /\ Failed
    /\ held[last.network] = 0
    /\ ~heap[last.network].live
    /\ held[last.core] = 1

====
